---- MODULE Spec2Model ----
(***************************************************************************)
(* Model of generate() in Homework/01/scripts/generation.py: the           *)
(* autoregressive decoding loop (greedy / temperature / top-k sampling)    *)
(* driven by a recurrent model and a tokenizer.                            *)
(*                                                                         *)
(* Optional values (Python None) are sequences of length at most one:      *)
(* None is <<>> and a present value x is <<x>>.                            *)
(* A probability vector is held as its numerators over a common positive   *)
(* denominator, so comparisons and zero tests are those of the             *)
(* probabilities themselves.                                               *)
(***************************************************************************)
EXTENDS Integers, Sequences, FiniteSets, TLC

VARIABLES temperature, top_k, max_length,
          pc, gen_ids, hx, tokens, logits, p, new_token,
          calls, chosen, draws, decoded, memo

config == <<temperature, top_k, max_length>>
vars == <<temperature, top_k, max_length, pc, gen_ids, hx, tokens, logits, p,
          new_token, calls, chosen, draws, decoded, memo>>

----------------------------------------------------------------------------
(* Bounds of the model *)

VocabSize == 3
MaxLen == 2
ExpUnderflow == 2

(* Inputs *)
Ids == 0 .. (VocabSize - 1)
Temperatures == {-1, 0, 1, 2}
LogitVals == {0, 2, 4}
MaxLengths == -1 .. MaxLen
TopKs == {<<>>} \cup {<<k>> : k \in -(VocabSize + 1) .. (VocabSize + 1)}
LogitVecs == [Ids -> LogitVals]
(* the two-call specification draws arguments and scores from subsets *)
PairTemperatures == {0, 1}
PairTopKs == {<<>>, <<1>>, <<VocabSize + 1>>}
PairLogitVecs == [Ids -> {0, 4}]
Runs == {1, 2}

None == <<>>
Some(x) == <<x>>

(* tokenizer.bos_token_id / tokenizer.eos_token_id *)
bos_token_id == 0
eos_token_id == VocabSize - 1

----------------------------------------------------------------------------
(* Pure parts of one loop iteration *)

SetMax(S) == CHOOSE x \in S : \A y \in S : y <= x
SetMin(S) == CHOOSE x \in S : \A y \in S : x <= y

(* line 60 *)
do_sample == temperature > 0

(* variant: the loop test admits one more iteration *)
LoopCondLe(r) == Len(gen_ids[r]) <= max_length

(* line 67: the loop test *)
LoopCond(r) == Len(gen_ids[r]) < max_length

(* line 70: the model's new recurrent state; it summarises every token the  *)
(* model has consumed so far                                                *)
NewState(toks, h) == (IF h = None THEN <<>> ELSE h[1]) \o toks

(* line 70: the model answers with one score vector per input position *)
Responses(toks, det) == [1 .. Len(toks) -> IF det THEN PairLogitVecs ELSE LogitVecs]

(* line 73: logits[:, -1, :] *)
LastPosition(resp) == resp[Len(resp)]

(* line 77: torch.argmax, first maximal index *)
ArgMax(v) == SetMin({i \in DOMAIN v : \A j \in DOMAIN v : v[j] <= v[i]})

(* line 79: logits /= temperature (exact on LogitVals and Temperatures) *)
Scale(v, t) == [i \in DOMAIN v |-> v[i] \div t]

(* line 81: F.softmax: exponentials of the scores minus their maximum; an   *)
(* exponent below -ExpUnderflow yields exactly zero, as in floating point   *)
Softmax(v) ==
    LET m == SetMax({v[i] : i \in DOMAIN v})
    IN [i \in DOMAIN v |->
          IF m - v[i] > ExpUnderflow THEN 0 ELSE 2 ^ (ExpUnderflow - (m - v[i]))]

(* line 86: np.argpartition(p, -top_k) accepts kth in -n .. n-1 *)
KthInBounds(q, k) == -k >= -Cardinality(DOMAIN q) /\ -k < Cardinality(DOMAIN q)

(* line 86: position of kth after numpy's normalisation, which is also the  *)
(* start of the slice [-top_k:]                                             *)
KthPos(q, k) == IF -k < 0 THEN -k + Cardinality(DOMAIN q) ELSE -k

(* variant: the partition is sliced from the wrong end, giving the least   *)
(* probable entries                                                        *)
TopKIdsSmallest(q, k) ==
    {S \in SUBSET (DOMAIN q) :
        /\ Cardinality(S) = Cardinality(DOMAIN q) - KthPos(q, k)
        /\ \A i \in S : \A j \in (DOMAIN q) \ S : q[i] <= q[j]}

(* lines 86-87: the index sets argpartition(p, -top_k)[-top_k:] can yield:  *)
(* the entries from position kth on, each at least every entry before it;   *)
(* which of several equal entries is taken is up to the selection algorithm *)
TopKIds(q, k) ==
    {S \in SUBSET (DOMAIN q) :
        /\ Cardinality(S) = Cardinality(DOMAIN q) - KthPos(q, k)
        /\ \A i \in S : \A j \in (DOMAIN q) \ S : q[i] >= q[j]}

(* lines 89, 91: np.random.choice(a, p=p) can return any entry of a whose   *)
(* probability is not zero                                                  *)
RandomChoice(a, q) == {i \in a : q[i] > 0}

(* variant: the stop test compares with the wrong reserved id *)
IsEosBos(tok) == tok = bos_token_id

(* line 93 *)
IsEos(tok) == tok = eos_token_id

(* variant: the token is appended twice *)
AppendTwice(g, tok) == Append(Append(g, tok), tok)

(* line 95 *)
AppendToken(g, tok) == Append(g, tok)

(* variant: the whole history is fed back instead of the last token *)
NextTokensHistory(toks, tok) == Append(toks, tok)

(* line 96 *)
NextTokens(toks, tok) == <<tok>>

----------------------------------------------------------------------------
(* State after lines 60-66 of a call with the given arguments *)

InitRun(Ts, Ks) ==
    /\ temperature \in Ts
    /\ top_k \in Ks
    /\ max_length \in MaxLengths
    /\ pc = [r \in Runs |-> IF r = 1 THEN "loop" ELSE "idle"]
    /\ gen_ids = [r \in Runs |-> <<>>]
    /\ hx = [r \in Runs |-> None]
    /\ tokens = [r \in Runs |-> <<bos_token_id>>]
    /\ logits = [r \in Runs |-> None]
    /\ p = [r \in Runs |-> None]
    /\ new_token = [r \in Runs |-> None]
    /\ calls = [r \in Runs |-> <<>>]
    /\ chosen = [r \in Runs |-> <<>>]
    /\ draws = [r \in Runs |-> 0]
    /\ decoded = [r \in Runs |-> None]
    /\ memo = <<>>

Init == InitRun(Temperatures, TopKs)

(* line 70: logits, hx = model(tokens, hx).  With det the model is a        *)
(* function of its arguments shared by all runs: an argument pair seen      *)
(* before gets the answer it got before.                                    *)
ModelCall(r, resp, det) ==
    LET key == <<tokens[r], hx[r]>>
        out == NewState(tokens[r], hx[r])
    IN /\ hx' = [hx EXCEPT ![r] = Some(out)]
       /\ calls' = [calls EXCEPT ![r] =
                       Append(@, [tokens |-> tokens[r], hx |-> hx[r], out |-> Some(out)])]
       /\ IF det
            THEN /\ key \in DOMAIN memo => resp = memo[key]
                 /\ memo' = IF key \in DOMAIN memo THEN memo ELSE memo @@ (key :> resp)
            ELSE memo' = memo

(* lines 93-96 *)
Consume(r, tok) ==
    /\ new_token' = [new_token EXCEPT ![r] = Some(tok)]
    /\ chosen' = [chosen EXCEPT ![r] = Append(@, tok)]
    /\ IF IsEos(tok)
         THEN /\ pc' = [pc EXCEPT ![r] = "break"]
              /\ UNCHANGED <<gen_ids, tokens>>
         ELSE /\ gen_ids' = [gen_ids EXCEPT ![r] = AppendToken(@, tok)]
              /\ tokens' = [tokens EXCEPT ![r] = NextTokens(@, tok)]
              /\ pc' = pc

(* variant: the greedy branch draws from the softmax of the unscaled scores *)
GreedySampled(r, det) ==
    /\ pc[r] = "loop"
    /\ LoopCond(r)
    /\ ~do_sample
    /\ \E resp \in Responses(tokens[r], det) :
          /\ ModelCall(r, resp, det)
          /\ logits' = [logits EXCEPT ![r] = Some(LastPosition(resp))]
          /\ \E tok \in RandomChoice(Ids, Softmax(LastPosition(resp))) : Consume(r, tok)
    /\ UNCHANGED <<config, p, draws, decoded>>

(* lines 67-77, 93-96: one iteration on the greedy branch *)
Greedy(r, det) ==
    /\ pc[r] = "loop"
    /\ LoopCond(r)
    /\ ~do_sample
    /\ \E resp \in Responses(tokens[r], det) :
          /\ ModelCall(r, resp, det)
          /\ logits' = [logits EXCEPT ![r] = Some(LastPosition(resp))]
          /\ Consume(r, ArgMax(LastPosition(resp)))
    /\ UNCHANGED <<config, p, draws, decoded>>

(* lines 67-73, 79-83, 91, 93-96: one iteration sampling the full vocabulary *)
SampleFull(r, det) ==
    /\ pc[r] = "loop"
    /\ LoopCond(r)
    /\ do_sample
    /\ top_k = None
    /\ \E resp \in Responses(tokens[r], det) :
          LET lg == Scale(LastPosition(resp), temperature)
              q == Softmax(lg)
          IN /\ ModelCall(r, resp, det)
             /\ logits' = [logits EXCEPT ![r] = Some(lg)]
             /\ p' = [p EXCEPT ![r] = Some(q)]
             /\ draws' = [draws EXCEPT ![r] = @ + 1]
             /\ \E tok \in RandomChoice(DOMAIN q, q) : Consume(r, tok)
    /\ UNCHANGED <<config, decoded>>

(* lines 67-73, 79-89, 93-96: one iteration sampling among the top-k ids *)
SampleTopK(r, det) ==
    /\ pc[r] = "loop"
    /\ LoopCond(r)
    /\ do_sample
    /\ top_k # None
    /\ \E resp \in Responses(tokens[r], det) :
          LET lg == Scale(LastPosition(resp), temperature)
              q == Softmax(lg)
          IN /\ KthInBounds(q, top_k[1])
             /\ ModelCall(r, resp, det)
             /\ logits' = [logits EXCEPT ![r] = Some(lg)]
             /\ p' = [p EXCEPT ![r] = Some(q)]
             /\ draws' = [draws EXCEPT ![r] = @ + 1]
             /\ \E top_k_ids \in TopKIds(q, top_k[1]) :
                   \E tok \in RandomChoice(top_k_ids, q) : Consume(r, tok)
    /\ UNCHANGED <<config, decoded>>

(* lines 67-73, 79-86: np.argpartition raises ValueError (kth out of        *)
(* bounds); the exception leaves generate                                   *)
TopKError(r, det) ==
    /\ pc[r] = "loop"
    /\ LoopCond(r)
    /\ do_sample
    /\ top_k # None
    /\ \E resp \in Responses(tokens[r], det) :
          LET lg == Scale(LastPosition(resp), temperature)
              q == Softmax(lg)
          IN /\ ~KthInBounds(q, top_k[1])
             /\ ModelCall(r, resp, det)
             /\ logits' = [logits EXCEPT ![r] = Some(lg)]
             /\ p' = [p EXCEPT ![r] = Some(q)]
    /\ pc' = [pc EXCEPT ![r] = "raised"]
    /\ UNCHANGED <<config, gen_ids, tokens, new_token, chosen, draws, decoded>>

(* lines 67, 94, 98: the loop is left and tokenizer.decode(gen_ids) returned *)
Return(r) ==
    /\ \/ pc[r] = "break"
       \/ pc[r] = "loop" /\ ~LoopCond(r)
    /\ decoded' = [decoded EXCEPT ![r] = Some(gen_ids[r])]
    /\ pc' = [pc EXCEPT ![r] = "done"]
    /\ UNCHANGED <<config, gen_ids, hx, tokens, logits, p, new_token, calls,
                   chosen, draws, memo>>

Next ==
    \/ Greedy(1, FALSE)
    \/ SampleFull(1, FALSE)
    \/ SampleTopK(1, FALSE)
    \/ TopKError(1, FALSE)
    \/ Return(1)

Spec == Init /\ [][Next]_vars

(* generate always runs on: every model and tokenizer call returns *)
LiveSpec == Spec /\ WF_vars(Next)

(* Two successive calls of generate with the same arguments against one     *)
(* deterministic model: the second call starts (lines 60-66) once the first *)
(* has returned or raised                                                   *)
SecondCall ==
    /\ pc[1] \in {"done", "raised"}
    /\ pc[2] = "idle"
    /\ pc' = [pc EXCEPT ![2] = "loop"]
    /\ UNCHANGED <<config, gen_ids, hx, tokens, logits, p, new_token, calls,
                   chosen, draws, decoded, memo>>

NextPair ==
    \/ SecondCall
    \/ \E r \in Runs :
          \/ Greedy(r, TRUE)
          \/ SampleFull(r, TRUE)
          \/ SampleTopK(r, TRUE)
          \/ TopKError(r, TRUE)
          \/ Return(r)

InitPair == InitRun(PairTemperatures, PairTopKs)

SpecPair == InitPair /\ [][NextPair]_vars

----------------------------------------------------------------------------
(* Properties *)

eos == eos_token_id
Emitted == gen_ids[1]
Done == pc[1] = "done"

(* the preconditions of the contract: temperature >= 0, top_k absent or in  *)
(* 1 .. V, max_length >= 0                                                  *)
ValidConfig ==
    /\ temperature >= 0
    /\ top_k = None \/ top_k[1] \in 1 .. VocabSize
    /\ max_length >= 0

FirstEos(s) == SetMin({i \in 1 .. Len(s) : s[i] = eos})

(* C1: whenever max_length >= 0, the number of emitted ids never exceeds    *)
(* max_length                                                               *)
C1_EmittedAtMostMaxLength == max_length >= 0 => Len(Emitted) <= max_length

C1_Witness == max_length = MaxLen /\ Len(Emitted) = MaxLen /\ pc[1] = "loop"

(* C2: when generate returns with max_length = N >= 0, the ids passed to    *)
(* tokenizer.decode are the ids chosen before the first end-of-sequence id  *)
(* if one was chosen, and exactly N ids otherwise                           *)
C2_ReturnedIds ==
    (max_length >= 0 /\ Done) =>
        IF \E i \in 1 .. Len(chosen[1]) : chosen[1][i] = eos
          THEN decoded[1][1] = SubSeq(chosen[1], 1, FirstEos(chosen[1]) - 1)
          ELSE Len(decoded[1][1]) = max_length /\ decoded[1][1] = chosen[1]

C2_Witness ==
    /\ Done
    /\ Len(decoded[1][1]) >= 1
    /\ Len(decoded[1][1]) < max_length
    /\ chosen[1][Len(chosen[1])] = eos

(* C3: the end-of-sequence id is never an element of gen_ids, and a step    *)
(* that chooses it leaves gen_ids unchanged and leaves the loop             *)
C3_EosNeverAppended ==
    /\ [](\A i \in 1 .. Len(Emitted) : Emitted[i] # eos)
    /\ [][(calls'[1] # calls[1] /\ new_token'[1] = Some(eos))
            => (gen_ids'[1] = gen_ids[1] /\ pc'[1] = "break")]_vars

C3_Witness == pc[1] = "break" /\ new_token[1] = Some(eos) /\ Len(Emitted) = MaxLen - 1

(* C4: with temperature > 0 and top_k = k in 1 .. V, fewer than k ids are   *)
(* strictly more probable than the sampled token in the step's distribution *)
C4_TopKContainment ==
    (do_sample /\ top_k # None /\ top_k[1] \in 1 .. VocabSize /\ new_token[1] # None)
        => Cardinality({j \in Ids : p[1][1][j] > p[1][1][new_token[1][1]]}) < top_k[1]

C4_Witness ==
    /\ do_sample
    /\ top_k = Some(2)
    /\ new_token[1] # None
    /\ Cardinality({j \in Ids : p[1][1][j] > p[1][1][new_token[1][1]]}) = 1
    /\ \E j \in Ids : p[1][1][j] > 0 /\ p[1][1][j] < p[1][1][new_token[1][1]]

(* C5: with temperature = 0 no random draw is made, every chosen token is   *)
(* the arg-max of the step's score vector, and two calls against the same   *)
(* deterministic model return the same ids                                  *)
C5_GreedyDeterminism ==
    temperature = 0 =>
        /\ \A r \in Runs :
              /\ draws[r] = 0
              /\ new_token[r] # None => new_token[r][1] = ArgMax(logits[r][1])
        /\ (decoded[1] # None /\ decoded[2] # None) => decoded[1] = decoded[2]

C5_Witness ==
    /\ temperature = 0
    /\ pc[1] = "done" /\ pc[2] = "done"
    /\ Len(decoded[2][1]) = MaxLen
    /\ decoded[2][1][1] # decoded[2][1][MaxLen]

(* C6: an invalid configuration (negative temperature, top_k non-positive   *)
(* or above the vocabulary size, negative max_length) is rejected before    *)
(* any model call and no string is returned                                 *)
C6_InvalidConfigRejected ==
    ~ValidConfig => (calls[1] = <<>> /\ decoded[1] = None)

(* C7: with max_length = 0 no model call is made and the empty id sequence  *)
(* is decoded                                                               *)
C7_ZeroLength ==
    max_length = 0 =>
        /\ calls[1] = <<>>
        /\ pc[1] \in {"loop", "done"}
        /\ Done => decoded[1] = Some(<<>>)

C7_Witness == max_length = 0 /\ Done /\ decoded[1] = Some(<<>>)

(* the first model answer makes the end-of-sequence id the arg-max (greedy) *)
(* or the only outcome of non-zero probability (sampling)                   *)
FirstStepPicksEos ==
    /\ Len(calls[1]) = 1
    /\ logits[1] # None
    /\ \/ ~do_sample /\ ArgMax(logits[1][1]) = eos
       \/ /\ do_sample
          /\ p[1] # None
          /\ top_k = None \/ KthInBounds(p[1][1], top_k[1])
          /\ \A j \in Ids : p[1][1][j] > 0 => j = eos

(* C8: if max_length >= 1 and the first step makes the end-of-sequence id   *)
(* the chosen token, generate makes exactly one model call and decodes the  *)
(* empty id sequence                                                        *)
C8_EarlyStop ==
    /\ []((max_length >= 1 /\ FirstStepPicksEos) =>
            /\ pc[1] \in {"break", "done"}
            /\ Emitted = <<>>
            /\ Done => decoded[1] = Some(<<>>))
    /\ [][pc[1] = "break" => (calls'[1] = calls[1] /\ pc'[1] = "done")]_vars

C8_Witness == Done /\ FirstStepPicksEos /\ do_sample /\ top_k = None /\ max_length = MaxLen

(* C9: the first model call gets the begin-of-sequence id and no recurrent  *)
(* state; every later call gets exactly the last appended id and the state  *)
(* returned by the call before it                                           *)
C9_StateThreading ==
    /\ \A i \in 1 .. Len(calls[1]) :
          LET c == calls[1][i]
          IN /\ Len(c.tokens) = 1
             /\ IF i = 1
                  THEN c.tokens = <<bos_token_id>> /\ c.hx = None
                  ELSE /\ i - 1 <= Len(Emitted)
                       /\ c.tokens = <<Emitted[i - 1]>>
                       /\ c.hx = calls[1][i - 1].out
    /\ Len(calls[1]) >= 1 => hx[1] = calls[1][Len(calls[1])].out

C9_Witness == Len(calls[1]) = MaxLen /\ MaxLen >= 2 /\ Emitted[1] # bos_token_id

(* C10: under the contract's preconditions generate reaches                 *)
(* tokenizer.decode, never makes more than max_length model calls, and on   *)
(* return has made one call per emitted id plus one if it stopped on the    *)
(* end-of-sequence id                                                       *)
C10_Termination ==
    /\ ValidConfig => <>Done
    /\ [](ValidConfig =>
            /\ Len(calls[1]) <= max_length
            /\ Done => Len(calls[1]) = Len(decoded[1][1])
                          + (IF new_token[1] = Some(eos) THEN 1 ELSE 0))

C10_Witness ==
    /\ ValidConfig /\ Done
    /\ max_length = MaxLen
    /\ Len(calls[1]) = MaxLen
    /\ new_token[1] = Some(eos)

====
